---------------------------- MODULE Spec2Model ----------------------------
(***************************************************************************)
(* A model of SolidityAddressMapper: the bytecode disassembler, the        *)
(* source-map decoder, the AST locator and the mapper that chains them.    *)
(* Strings are sequences of one-character strings, so that splitting and   *)
(* parsing are computed and not assumed.                                   *)
(***************************************************************************)
EXTENDS Integers, Sequences, FiniteSets, TLC

VARIABLES
    bytecode,           \* disassembler input: the hex string
    pc,                 \* disassembler input: the byte offset
    dis_result,         \* outcome of solidity_address_mapper's disassembler
    dis_result_root,    \* outcome of src/mapper.py's disassembler
    dis_calls           \* which of the two copies have been called on the input

VARIABLES
    srcmap,             \* decoder input: the source map string
    instruction_index,  \* decoder input: the instruction index
    instruction,        \* outcome of solidity_address_mapper's decoder
    instruction_root    \* outcome of src/mapper.py's decoder

dis_vars == <<bytecode, pc, dis_result, dis_result_root, dis_calls>>

sm_vars == <<srcmap, instruction_index, instruction, instruction_root>>

VARIABLES
    ast_json,           \* locator input: the AST
    source_location,    \* locator input: the resolved offset, length and file_id
    best_match          \* outcome of _ast_node_from_instruction

ast_vars == <<ast_json, source_location, best_match>>

VARIABLES
    call,               \* map_hex_address: which copy is called, and its inputs
    stage,              \* how far the call has come
    map_dis,            \* the disassembler's outcome inside the call
    map_entry,          \* the decoder's outcome inside the call
    map_node,           \* the locator's outcome inside the call
    map_result,         \* what the call hands back or raises
    map_trace           \* the steps the call has run, in order

map_vars == <<call, stage, map_dis, map_entry, map_node, map_result, map_trace>>

VARIABLES
    source_text,        \* snippet reader input: the text of the source file
    snip_start,         \* snippet reader input: the offset
    snip_length,        \* snippet reader input: the length
    string_snippet,     \* outcome of _read_snippet_from_string
    file_snippet        \* outcome of _read_snippet_from_file on a file with that text

snip_vars == <<source_text, snip_start, snip_length, string_snippet, file_snippet>>

VARIABLES
    ast_node,           \* reconstructor input: the node to print
    reconstructed       \* outcome of SolidityASTReconstructor.reconstruct

rec_vars == <<ast_node, reconstructed>>

VARIABLES
    decode_log          \* the calls made on the packaged decoder so far, with their outcomes

log_vars == <<decode_log>>

vars == <<dis_vars, sm_vars, ast_vars, map_vars, snip_vars, rec_vars, log_vars>>

\* what a call of one component leaves alone
dis_rest == <<sm_vars, ast_vars, map_vars, snip_vars, rec_vars, log_vars>>

sm_rest == <<dis_vars, ast_vars, map_vars, snip_vars, rec_vars, log_vars>>

ast_rest == <<dis_vars, sm_vars, map_vars, snip_vars, rec_vars, log_vars>>

map_rest == <<dis_vars, sm_vars, ast_vars, snip_vars, rec_vars, log_vars>>

snip_rest == <<dis_vars, sm_vars, ast_vars, map_vars, rec_vars, log_vars>>

rec_rest == <<dis_vars, sm_vars, ast_vars, map_vars, snip_vars, log_vars>>

log_rest == <<dis_vars, sm_vars, ast_vars, map_vars, snip_vars, rec_vars>>

---------------------------------------------------------------------------
(* Bounds of the model *)

\* longest byte sequence put into a generated bytecode
MaxBytes == 3

\* largest pc tried on every bytecode (the pcs around the padded end are added)
MaxPc == 4

\* most entries of a generated source map
MaxEntries == 2

\* most nodes of a generated AST
MaxNodes == 3

\* longest source text given to the snippet readers
MaxText == 4

\* longest snippet asked of the snippet readers
MaxSnippet == 2

\* largest node given to the reconstructor, counted in nodes and absent operands
MaxAstSize == 5

---------------------------------------------------------------------------
(* Strings and hexadecimal *)

HexDigits == <<"0","1","2","3","4","5","6","7","8","9","a","b","c","d","e","f">>

UpperHexDigits == <<"0","1","2","3","4","5","6","7","8","9","A","B","C","D","E","F">>

IsHexChar(c) ==
    \E i \in 1..16 : HexDigits[i] = c \/ UpperHexDigits[i] = c

HexVal(c) ==
    (CHOOSE i \in 1..16 : HexDigits[i] = c \/ UpperHexDigits[i] = c) - 1

IsSpace(c) == c \in {" ", "\t", "\n", "\r"}

\* the two lowercase hex characters of one byte, as the compiler prints them
HexOfByte(b) == <<HexDigits[(b \div 16) + 1], HexDigits[(b % 16) + 1]>>

RECURSIVE HexOfBytes(_)
HexOfBytes(bs) ==
    IF bs = <<>> THEN <<>> ELSE HexOfByte(Head(bs)) \o HexOfBytes(Tail(bs))

StartsWith0x(s) == Len(s) >= 2 /\ s[1] = "0" /\ s[2] = "x"

\* bytes.fromhex: whitespace is skipped between bytes, each byte is two hex
\* characters; anything else is a ValueError
RECURSIVE FromHexAt(_, _)
FromHexAt(s, i) ==
    IF i > Len(s) THEN [ok |-> TRUE, bytes |-> <<>>]
    ELSE IF IsSpace(s[i]) THEN FromHexAt(s, i + 1)
    ELSE IF i + 1 > Len(s) \/ ~IsHexChar(s[i]) \/ ~IsHexChar(s[i + 1])
         THEN [ok |-> FALSE, bytes |-> <<>>]
    ELSE LET rest == FromHexAt(s, i + 2)
         IN  IF rest.ok
             THEN [ok |-> TRUE,
                   bytes |-> <<16 * HexVal(s[i]) + HexVal(s[i + 1])>> \o rest.bytes]
             ELSE rest

FromHex(s) == FromHexAt(s, 1)

---------------------------------------------------------------------------
(* Outcomes of a disassembler call *)

Ok(i) == [kind |-> "ok", index |-> i, reported |-> 0]

Err(k, n) == [kind |-> k, index |-> 0, reported |-> n]

Pending == [kind |-> "pending", index |-> 0, reported |-> 0]

---------------------------------------------------------------------------
(* Opcode table *)

PUSH1 == 96

PUSH32 == 127

PushBase == 95

\* the same with the upper end of the range excluded
IsPushBelowPush32(op) == PUSH1 <= op /\ op < PUSH32

IsPush(op) == PUSH1 <= op /\ op <= PUSH32

PushDataBytes(op) == op - PushBase

---------------------------------------------------------------------------
(* solidity_address_mapper/mapper.py: _instruction_index_from_hex_address *)

\* the for loop over enumerate(bytecode_bytes); cur is current_pc + 1
RECURSIVE PkgWalk(_, _, _, _, _, _)
PkgWalk(bs, target, cur, idx, push, pad) ==
    IF cur > Len(bs) THEN [index |-> idx, pad |-> pad]
    ELSE LET op     == bs[cur]
             isData == push > 0
             idx2   == IF isData THEN idx ELSE idx + 1
             push2  == IF isData THEN push - 1
                       ELSE IF IsPush(op) THEN PushDataBytes(op) ELSE 0
             pad2   == IF isData THEN pad
                       ELSE IF IsPush(op) THEN pad + 1 + PushDataBytes(op)
                       ELSE pad + 1
         IN  IF cur - 1 = target
             THEN [index |-> idx2, pad |-> pad2]
             ELSE PkgWalk(bs, target, cur + 1, idx2, push2, pad2)

\* the same with the instruction counter started at 0 instead of -1
PkgIndexCounterFromZero(p, bs) ==
    IF p = 0 THEN Ok(0)
    ELSE LET w == PkgWalk(bs, p, 1, 0, 0, 0)
         IN  IF p > w.pad THEN Err("out_of_range", w.pad) ELSE Ok(w.index)

\* the same with the range test written >= instead of >
PkgIndexRejectsEnd(p, bs) ==
    IF p = 0 THEN Ok(0)
    ELSE LET w == PkgWalk(bs, p, 1, -1, 0, 0)
         IN  IF p >= w.pad THEN Err("out_of_range", w.pad) ELSE Ok(w.index)

\* the same with the shortcut for pc 0 answering 1, as if ordinals were
\* one-based there
PkgIndexFirstIsOne(p, bs) ==
    IF p = 0 THEN Ok(1)
    ELSE LET w == PkgWalk(bs, p, 1, -1, 0, 0)
         IN  IF p > w.pad THEN Err("out_of_range", w.pad) ELSE Ok(w.index)

\* the same with the range test made against the number of actual bytes,
\* the implied operand bytes of a truncated PUSH not counted
PkgIndexUnpadded(p, bs) ==
    IF p = 0 THEN Ok(0)
    ELSE LET w == PkgWalk(bs, p, 1, -1, 0, 0)
         IN  IF p >= Len(bs) THEN Err("out_of_range", Len(bs)) ELSE Ok(w.index)

PkgIndexAfterDecode(p, bs) ==
    IF p = 0 THEN Ok(0)
    ELSE LET w == PkgWalk(bs, p, 1, -1, 0, 0)
         IN  IF p > w.pad THEN Err("out_of_range", w.pad) ELSE Ok(w.index)

PkgInstructionIndex(p, bc) ==
    IF p < 0 THEN Err("negative_pc", 0)
    ELSE IF bc = <<>> THEN Err("empty_bytecode", 0)
    ELSE LET stripped == IF StartsWith0x(bc) THEN SubSeq(bc, 3, Len(bc)) ELSE bc
             decoded  == FromHex(stripped)
         IN  IF ~decoded.ok THEN Err("invalid_hex", 0)
             ELSE PkgIndexAfterDecode(p, decoded.bytes)

---------------------------------------------------------------------------
(* src/mapper.py: _instruction_index_from_hex_address *)

\* the while loop; cur is current_pc
RECURSIVE RootWalk(_, _, _, _)
RootWalk(bs, target, cur, idx) ==
    IF ~(cur < Len(bs) /\ cur < target) THEN idx
    ELSE LET op   == bs[cur + 1]
             next == IF IsPush(op) THEN cur + 1 + PushDataBytes(op) ELSE cur + 1
         IN  IF target < next THEN idx
             ELSE RootWalk(bs, target, next, idx + 1)

RootInstructionIndex(p, bc) ==
    IF p < 0 THEN Err("negative_pc", 0)
    ELSE IF bc = <<>> THEN Err("empty_bytecode", 0)
    ELSE LET stripped == IF StartsWith0x(bc) THEN SubSeq(bc, 3, Len(bc)) ELSE bc
             decoded  == FromHex(stripped)
         IN  IF ~decoded.ok THEN Err("invalid_hex", 0)
             ELSE IF p > Len(decoded.bytes)
                  THEN Err("out_of_range", Len(decoded.bytes))
                  ELSE Ok(RootWalk(decoded.bytes, p, 0, 0))

---------------------------------------------------------------------------
(* tests/test_instruction_index.py: the reference disassembly *)

\* create_instruction_mapping: the list of (instruction_idx, (start, end))
RECURSIVE RefMapping(_, _, _)
RefMapping(bs, i, instruction_idx) ==
    IF ~(i < Len(bs)) THEN <<>>
    ELSE LET op == bs[i + 1]
         IN  IF IsPush(op)
             THEN <<[idx |-> instruction_idx, start |-> i, end |-> i + PushDataBytes(op)]>>
                  \o RefMapping(bs, i + 1 + PushDataBytes(op), instruction_idx + 1)
             ELSE <<[idx |-> instruction_idx, start |-> i, end |-> i]>>
                  \o RefMapping(bs, i + 1, instruction_idx + 1)

InstructionMap(bs) == RefMapping(bs, 0, 0)

\* the index the test expects for byte position p: that of the range holding p
RefOwner(bs, p) ==
    LET m == InstructionMap(bs)
    IN  IF \E k \in 1..Len(m) : m[k].start <= p /\ p <= m[k].end
        THEN (CHOOSE k \in 1..Len(m) : m[k].start <= p /\ p <= m[k].end) - 1
        ELSE -1

\* number of bytes of all instructions, a truncated trailing PUSH counted in full
PaddedLength(bs) ==
    LET m == InstructionMap(bs)
    IN  IF m = <<>> THEN 0 ELSE m[Len(m)].end + 1

---------------------------------------------------------------------------
(* Inputs of the disassembler *)

Opcodes == {95, 96, 97, 127, 128}

RECURSIVE SeqsUpTo(_, _)
SeqsUpTo(S, n) ==
    IF n = 0 THEN {<<>>}
    ELSE LET shorter == SeqsUpTo(S, n - 1)
         IN  shorter \cup {Append(s, x) : s \in {t \in shorter : Len(t) = n - 1}, x \in S}

ByteSeqs == SeqsUpTo(Opcodes, MaxBytes)

\* what may stand before and after the hex digits of a bytecode string
Prefixes == {<<>>, <<"0", "x">>}

Suffixes == {<<>>, <<"6">>, <<"g", "0">>, <<" ">>}

Bytecodes == {p \o HexOfBytes(bs) \o s : p \in Prefixes, bs \in ByteSeqs, s \in Suffixes}

\* the bytes a bytecode string decodes to, for choosing pcs at its end
DecodedBytes(bc) ==
    LET stripped == IF StartsWith0x(bc) THEN SubSeq(bc, 3, Len(bc)) ELSE bc
        decoded  == FromHex(stripped)
    IN  IF decoded.ok THEN decoded.bytes ELSE <<>>

IsValidBytecode(bc) ==
    LET stripped == IF StartsWith0x(bc) THEN SubSeq(bc, 3, Len(bc)) ELSE bc
    IN  FromHex(stripped).ok /\ FromHex(stripped).bytes # <<>>

PcInputs(bc) ==
    (-1 .. MaxPc) \cup
    LET n == PaddedLength(DecodedBytes(bc)) IN (n - 1) .. (n + 1)

---------------------------------------------------------------------------
(* The disassembler as a state machine: an input, then the calls on it *)

DisInit ==
    /\ bytecode \in Bytecodes
    /\ pc \in PcInputs(bytecode)
    /\ dis_result = Pending
    /\ dis_result_root = Pending
    /\ dis_calls = {}

CallPkgIndex ==
    /\ "pkg" \notin dis_calls
    /\ dis_result' = PkgInstructionIndex(pc, bytecode)
    /\ dis_calls' = dis_calls \cup {"pkg"}
    /\ UNCHANGED <<bytecode, pc, dis_result_root, dis_rest>>

CallRootIndex ==
    /\ "root" \notin dis_calls
    /\ dis_result_root' = RootInstructionIndex(pc, bytecode)
    /\ dis_calls' = dis_calls \cup {"root"}
    /\ UNCHANGED <<bytecode, pc, dis_result, dis_rest>>

\* the next call is made on the next pc of the same bytecode
NextPc ==
    /\ dis_calls # {}
    /\ pc + 1 \in PcInputs(bytecode)
    /\ pc' = pc + 1
    /\ dis_result' = Pending
    /\ dis_result_root' = Pending
    /\ dis_calls' = {}
    /\ UNCHANGED <<bytecode, dis_rest>>

DisNext == CallPkgIndex \/ CallRootIndex \/ NextPc

\* the bytecodes the compiler writes: the hex digits of at least one byte,
\* with or without 0x
CompiledBytecodes == {p \o HexOfBytes(bs) : p \in Prefixes, bs \in ByteSeqs \ {<<>>}}

\* the same machine started on a compiled bytecode
DisCompiledInit ==
    /\ bytecode \in CompiledBytecodes
    /\ pc \in PcInputs(bytecode)
    /\ dis_result = Pending
    /\ dis_result_root = Pending
    /\ dis_calls = {}

---------------------------------------------------------------------------
(* str.split and int *)

\* position of the first sep in s, 0 when there is none
FirstIndexOf(s, sep) ==
    IF \E i \in 1..Len(s) : s[i] = sep
    THEN CHOOSE i \in 1..Len(s) : s[i] = sep /\ \A k \in 1..(i - 1) : s[k] # sep
    ELSE 0

\* s.split(sep): never empty, "" gives one empty part
RECURSIVE Split(_, _)
Split(s, sep) ==
    LET i == FirstIndexOf(s, sep)
    IN  IF i = 0 THEN <<s>>
        ELSE <<SubSeq(s, 1, i - 1)>> \o Split(SubSeq(s, i + 1, Len(s)), sep)

IsDigit(c) == c \in {"0","1","2","3","4","5","6","7","8","9"}

RECURSIVE DigitsValue(_)
DigitsValue(s) ==
    IF s = <<>> THEN 0
    ELSE 10 * DigitsValue(SubSeq(s, 1, Len(s) - 1)) + HexVal(s[Len(s)])

Unsigned(s) == IF s # <<>> /\ s[1] \in {"-", "+"} THEN Tail(s) ELSE s

\* whether int(s) succeeds: an optional sign, then at least one digit
IsInt(s) ==
    /\ Unsigned(s) # <<>>
    /\ \A i \in 1..Len(Unsigned(s)) : IsDigit(Unsigned(s)[i])

ParseInt(s) ==
    IF s[1] = "-" THEN 0 - DigitsValue(Unsigned(s)) ELSE DigitsValue(Unsigned(s))

---------------------------------------------------------------------------
(* _instruction_from_instruction_index, both copies *)

None == <<>>

Some(v) == <<v>>

EmptyResult ==
    [offset |-> None, length |-> None, file_id |-> None,
     jump |-> None, modifiers |-> None]

SmOk(e) == [kind |-> "ok", entry |-> e, count |-> 0, missing |-> ""]

SmErr(k, n, f) == [kind |-> k, entry |-> EmptyResult, count |-> n, missing |-> f]

SmPending == SmErr("pending", 0, "")

\* a field setter without the `in remaining` test: an earlier entry overwrites
SetFieldOverwriting(st, f, parts, k, numeric) ==
    IF st.bad THEN st
    ELSE IF Len(parts) > k /\ parts[k + 1] # <<>>
    THEN IF ~numeric
         THEN [st EXCEPT !.result[f] = Some(parts[k + 1])]
         ELSE IF IsInt(parts[k + 1])
              THEN [st EXCEPT !.result[f] = Some(ParseInt(parts[k + 1]))]
              ELSE [st EXCEPT !.bad = TRUE]
    ELSE st

\* one `if <field> in remaining and len(parts) > k and parts[k] != ''` of the
\* loop body; st.bad records that int() raised
SetField(st, f, parts, k, numeric) ==
    IF st.bad THEN st
    ELSE IF st.result[f] = None /\ Len(parts) > k /\ parts[k + 1] # <<>>
    THEN IF ~numeric
         THEN [st EXCEPT !.result[f] = Some(parts[k + 1])]
         ELSE IF IsInt(parts[k + 1])
              THEN [st EXCEPT !.result[f] = Some(ParseInt(parts[k + 1]))]
              ELSE [st EXCEPT !.bad = TRUE]
    ELSE st

\* the loop body for one non-empty entry
ApplyEntry(st, entry) ==
    LET parts == Split(entry, ":")
        s1 == SetField(st, "offset", parts, 0, TRUE)
        s2 == SetField(s1, "length", parts, 1, TRUE)
        s3 == SetField(s2, "file_id", parts, 2, TRUE)
        s4 == SetField(s3, "jump", parts, 3, FALSE)
    IN  SetField(s4, "modifiers", parts, 4, TRUE)

NothingRemaining(r) ==
    /\ r.offset # None /\ r.length # None /\ r.file_id # None
    /\ r.jump # None /\ r.modifiers # None

\* for i in range(instruction_index, -1, -1)
RECURSIVE ScanBack(_, _, _)
ScanBack(entries, i, st) ==
    IF i < 0 \/ st.bad THEN st
    ELSE IF entries[i + 1] = <<>> THEN ScanBack(entries, i - 1, st)
    ELSE LET st2 == ApplyEntry(st, entries[i + 1])
         IN  IF NothingRemaining(st2.result) THEN st2
             ELSE ScanBack(entries, i - 1, st2)

\* the same with jump and modifiers treated as mandatory too
PkgFinishAllMandatory(r) ==
    IF \E f \in DOMAIN r : r[f] = None THEN SmErr("incomplete", 0, "any")
    ELSE SmOk(r)

\* the checks after the loop in solidity_address_mapper/mapper.py
PkgFinish(r) ==
    IF r.file_id = None THEN SmErr("incomplete", 0, "file_id")
    ELSE IF r.offset = None THEN SmErr("incomplete", 0, "offset")
    ELSE IF r.length = None THEN SmErr("incomplete", 0, "length")
    ELSE SmOk(r)

\* the check after the loop in src/mapper.py
RootFinish(r) ==
    IF \E f \in DOMAIN r : r[f] = None THEN SmErr("incomplete", 0, "any")
    ELSE SmOk(r)

\* the same with the result dict left by the previous call reused instead of
\* a fresh one built on every call
DecodeKeepingResult(map, index) ==
    LET entries == Split(map, ";")
        kept == IF decode_log # <<>> /\ decode_log[Len(decode_log)].out.kind = "ok"
                THEN decode_log[Len(decode_log)].out.entry
                ELSE EmptyResult
    IN  IF index >= Len(entries) THEN [done |-> TRUE, out |-> SmErr("index_out_of_bounds", Len(entries), "")]
        ELSE LET st == ScanBack(entries, index, [result |-> kept, bad |-> FALSE])
             IN  IF st.bad THEN [done |-> TRUE, out |-> SmErr("value_error", 0, "")]
                 ELSE [done |-> FALSE, out |-> st.result]

Decode(map, index) ==
    LET entries == Split(map, ";")
    IN  IF index >= Len(entries) THEN [done |-> TRUE, out |-> SmErr("index_out_of_bounds", Len(entries), "")]
        ELSE LET st == ScanBack(entries, index, [result |-> EmptyResult, bad |-> FALSE])
             IN  IF st.bad THEN [done |-> TRUE, out |-> SmErr("value_error", 0, "")]
                 ELSE [done |-> FALSE, out |-> st.result]

PkgInstructionFromIndex(map, index) ==
    LET d == Decode(map, index)
    IN  IF d.done THEN d.out ELSE PkgFinish(d.out)

RootInstructionFromIndex(map, index) ==
    LET d == Decode(map, index)
    IN  IF d.done THEN d.out ELSE RootFinish(d.out)

---------------------------------------------------------------------------
(* Inputs of the decoder *)

RECURSIVE ToDecimal(_)
ToDecimal(n) ==
    IF n < 10 THEN <<HexDigits[n + 1]>>
    ELSE ToDecimal(n \div 10) \o <<HexDigits[(n % 10) + 1]>>

JumpChars == <<"i", "o", "-">>

\* the text of field f (1..5) of entry j (0-based): every entry has values of its own
FieldText(j, f) ==
    IF f = 4 THEN <<JumpChars[(j % 3) + 1]>> ELSE ToDecimal(10 * j + f)

RECURSIVE JoinWith(_, _)
JoinWith(parts, sep) ==
    IF parts = <<>> THEN <<>>
    ELSE IF Len(parts) = 1 THEN parts[1]
    ELSE parts[1] \o <<sep>> \o JoinWith(Tail(parts), sep)

\* entry j with the fields of `present` written and the trailing absent ones dropped
EntryText(j, present) ==
    IF present = {} THEN <<>>
    ELSE LET last == CHOOSE f \in present : \A g \in present : g <= f
         IN  JoinWith([f \in 1..last |-> IF f \in present THEN FieldText(j, f) ELSE <<>>], ":")

\* which fields an entry writes: none, one or all of offset, length and
\* file_id, with any of jump and modifiers
Presences ==
    {m \cup o : m \in {{}, {1}, {2}, {3}, {1, 2, 3}}, o \in SUBSET {4, 5}}

RECURSIVE SourceMapsOf(_)
SourceMapsOf(n) ==
    IF n = 1 THEN {EntryText(0, present) : present \in Presences}
    ELSE {m \o <<";">> \o EntryText(n - 1, present) :
             m \in SourceMapsOf(n - 1), present \in Presences}

SourceMaps == UNION {SourceMapsOf(n) : n \in 1..MaxEntries}

---------------------------------------------------------------------------
(* The decoder as a state machine: an input, then the calls on it *)

SmInit ==
    /\ srcmap \in SourceMaps
    /\ instruction_index \in -1 .. Len(Split(srcmap, ";"))
    /\ instruction = SmPending
    /\ instruction_root = SmPending

CallPkgDecode ==
    /\ instruction = SmPending
    /\ instruction' = PkgInstructionFromIndex(srcmap, instruction_index)
    /\ UNCHANGED <<srcmap, instruction_index, instruction_root, sm_rest>>

CallRootDecode ==
    /\ instruction_root = SmPending
    /\ instruction_root' = RootInstructionFromIndex(srcmap, instruction_index)
    /\ UNCHANGED <<srcmap, instruction_index, instruction, sm_rest>>

\* the next call is made on the next index of the same source map
NextIndex ==
    /\ instruction # SmPending \/ instruction_root # SmPending
    /\ instruction_index < Len(Split(srcmap, ";"))
    /\ instruction_index' = instruction_index + 1
    /\ instruction' = SmPending
    /\ instruction_root' = SmPending
    /\ UNCHANGED <<srcmap, sm_rest>>

SmNext == CallPkgDecode \/ CallRootDecode \/ NextIndex

---------------------------------------------------------------------------
(* A run of calls on the packaged decoder, with any inputs in any order *)

MaxCalls == 3

\* "0:3:0:-:0;4:2;", "0:3:0;4:2:-1;1:1:1", ":3;5" and "0:3:0:-:0"
CallInputs ==
    {<<"0", ":", "3", ":", "0", ":", "-", ":", "0", ";", "4", ":", "2", ";">>,
     <<"0", ":", "3", ":", "0", ";", "4", ":", "2", ":", "-", "1", ";",
       "1", ":", "1", ":", "1">>,
     <<":", "3", ";", "5">>,
     <<"0", ":", "3", ":", "0", ":", "-", ":", "0">>}

CallIndexes == -1 .. 2

LogInit == decode_log = <<>>

\* one more call of _instruction_from_instruction_index; the function is a
\* staticmethod whose result dict and remaining set are locals
CallDecodeAgain ==
    /\ Len(decode_log) < MaxCalls
    /\ \E map \in CallInputs, index \in CallIndexes :
          decode_log' = Append(decode_log,
                               [srcmap |-> map, instruction_index |-> index,
                                out |-> PkgInstructionFromIndex(map, index)])
    /\ UNCHANGED log_rest

LogNext == CallDecodeAgain

---------------------------------------------------------------------------
(* src/mapper.py: _ast_node_from_instruction *)

\* An AST node is [src, kids]: src is None or Some(text "offset:length:file_id"),
\* kids are the dict values and the dicts inside list values of the node, in
\* the order node.items() yields them.

Max(a, b) == IF a >= b THEN a ELSE b

\* target_end without the max(..., 1)
TargetEndExact(location) == location.offset + location.length

TargetEnd(location) == location.offset + Max(location.length, 1)

\* src.split(':') and the three int() calls
NodeSpan(node) ==
    LET src_parts == Split(node.src[1], ":")
    IN  [offset  |-> ParseInt(src_parts[1]),
         length  |-> ParseInt(src_parts[2]),
         file_id |-> ParseInt(src_parts[3])]

\* a containment test that does not compare the file ids
ContainsTargetAnyFile(node, location) ==
    LET span == NodeSpan(node)
    IN  /\ span.offset <= location.offset
        /\ span.offset + span.length >= TargetEnd(location)

ContainsTarget(node, location) ==
    LET span == NodeSpan(node)
    IN  /\ span.file_id = location.file_id
        /\ span.offset <= location.offset
        /\ span.offset + span.length >= TargetEnd(location)

NoMatch == [found |-> FALSE, node |-> [src |-> None, kids |-> <<>>], visit |-> 0,
            smallest_range |-> 0, visited |-> 0]

\* the same with the length test written <=: a later node of equal length
\* replaces the match
VisitNodeLastWins(node, location, st) ==
    LET here == [st EXCEPT !.visited = st.visited + 1]
    IN  IF node.src = None THEN here
        ELSE IF ContainsTarget(node, location)
                /\ (~here.found \/ NodeSpan(node).length <= here.smallest_range)
             THEN [here EXCEPT !.found = TRUE, !.node = node, !.visit = here.visited,
                               !.smallest_range = NodeSpan(node).length]
             ELSE here

\* the part of search_node before the loop over the children; found = FALSE
\* stands for best_match None and smallest_range infinite; visit is the
\* position of the matched dict in the traversal (its identity)
VisitNode(node, location, st) ==
    LET here == [st EXCEPT !.visited = st.visited + 1]
    IN  IF node.src = None THEN here
        ELSE IF ContainsTarget(node, location)
                /\ (~here.found \/ NodeSpan(node).length < here.smallest_range)
             THEN [here EXCEPT !.found = TRUE, !.node = node, !.visit = here.visited,
                               !.smallest_range = NodeSpan(node).length]
             ELSE here

\* a search that does not look below a node that contains the target
ChildrenUnlessMatched(node, location) ==
    IF node.src # None /\ ContainsTarget(node, location) THEN <<>> ELSE node.kids

\* the children search_node goes on to: all of them, match or not
ChildrenToSearch(node, location) == node.kids

RECURSIVE SearchNode(_, _, _)
RECURSIVE SearchAll(_, _, _)
SearchNode(node, location, st) ==
    SearchAll(ChildrenToSearch(node, location), location, VisitNode(node, location, st))

SearchAll(nodes, location, st) ==
    IF nodes = <<>> THEN st
    ELSE SearchAll(Tail(nodes), location, SearchNode(Head(nodes), location, st))

AstNodeFromInstruction(ast, location) ==
    LET st == SearchNode(ast, location, NoMatch)
    IN  IF ~st.found
        THEN [kind |-> "no_containing_node", node |-> NoMatch.node, visit |-> 0,
              offset |-> location.offset]
        ELSE [kind |-> "ok", node |-> st.node, visit |-> st.visit, offset |-> 0]

AstPending == [kind |-> "pending", node |-> NoMatch.node, visit |-> 0, offset |-> 0]

---------------------------------------------------------------------------
(* Inputs of the locator *)

NodeOffsets == {0, 1}

NodeLengths == {1, 2}

FileIds == {0, 1}

SrcText(offset, length, file_id) ==
    ToDecimal(offset) \o <<":">> \o ToDecimal(length) \o <<":">> \o ToDecimal(file_id)

\* no src, any of the spans in file 0, or the span 0:2 in file 1
SrcChoices ==
    {None} \cup {Some(SrcText(o, l, 0)) : o \in NodeOffsets, l \in NodeLengths}
           \cup {Some(SrcText(0, 2, 1))}

\* the trees of exactly n nodes, and the sequences of trees of k nodes in all
RECURSIVE TreesOf(_)
RECURSIVE ForestsOf(_)
TreesOf(n) == {[src |-> s, kids |-> f] : s \in SrcChoices, f \in ForestsOf(n - 1)}

ForestsOf(k) ==
    IF k = 0 THEN {<<>>}
    ELSE UNION {{<<t>> \o f : t \in TreesOf(j), f \in ForestsOf(k - j)} : j \in 1..k}

Asts == UNION {TreesOf(n) : n \in 1..MaxNodes}

Targets == [offset : NodeOffsets, length : {0, 1}, file_id : FileIds]

---------------------------------------------------------------------------
(* The locator as a state machine: an input, then the call on it *)

AstInit ==
    /\ ast_json \in Asts
    /\ source_location \in Targets
    /\ best_match = AstPending

CallLocate ==
    /\ best_match = AstPending
    /\ best_match' = AstNodeFromInstruction(ast_json, source_location)
    /\ UNCHANGED <<ast_json, source_location, ast_rest>>

\* the next call looks for the same range in the other file
NextFile ==
    /\ best_match # AstPending
    /\ source_location.file_id = 0
    /\ source_location' = [source_location EXCEPT !.file_id = 1]
    /\ best_match' = AstPending
    /\ UNCHANGED <<ast_json, ast_rest>>

AstNext == CallLocate \/ NextFile

---------------------------------------------------------------------------
(* Helpers of map_hex_address *)

\* whether int(s, 16) succeeds: an optional sign, an optional 0x, hex digits
HexBody(s) ==
    LET u == Unsigned(s)
    IN  IF Len(u) >= 2 /\ u[1] = "0" /\ u[2] \in {"x", "X"} THEN SubSeq(u, 3, Len(u)) ELSE u

IsHexInt(s) ==
    /\ HexBody(s) # <<>>
    /\ \A i \in 1..Len(HexBody(s)) : IsHexChar(HexBody(s)[i])

RECURSIVE HexDigitsValue(_)
HexDigitsValue(s) ==
    IF s = <<>> THEN 0
    ELSE 16 * HexDigitsValue(SubSeq(s, 1, Len(s) - 1)) + HexVal(s[Len(s)])

ParseHexInt(s) ==
    IF s[1] = "-" THEN 0 - HexDigitsValue(HexBody(s)) ELSE HexDigitsValue(HexBody(s))

Min(a, b) == IF a <= b THEN a ELSE b

\* s[a:b] for a, b >= 0
Slice(s, a, b) == SubSeq(s, Min(a, Len(s)) + 1, Min(b, Len(s)))

CountNewlines(s) == Cardinality({i \in 1..Len(s) : s[i] = "\n"})

\* a reader that counts the newlines up to the end of the snippet
ReadSnippetLineOfEnd(string_content, start, length) ==
    [code |-> Slice(string_content, start, start + length),
     line |-> CountNewlines(Slice(string_content, 0, start + length)) + 1]

\* a reader whose line numbers start at 0
ReadSnippetZeroBased(string_content, start, length) ==
    [code |-> Slice(string_content, start, start + length),
     line |-> CountNewlines(Slice(string_content, 0, start))]

\* solidity_address_mapper/mapper.py: _read_snippet_from_string
ReadSnippetFromString(string_content, start, length) ==
    [code |-> Slice(string_content, start, start + length),
     line |-> CountNewlines(Slice(string_content, 0, start)) + 1]

\* a MapperResult handed back, and an exception leaving map_hex_address
Returned(file, code, line, error) ==
    [outcome |-> "returned", file |-> file, code |-> code, line |-> line, error |-> error]

Raised(error) ==
    [outcome |-> "raised", file |-> "", code |-> <<>>, line |-> 0, error |-> error]

NoResult == [outcome |-> "none", file |-> "", code |-> <<>>, line |-> 0, error |-> ""]

\* the steps of map_hex_address before the disassembler: the file test, int(),
\* the contract lookup; "" when none of them fails
EarlyError(c) ==
    IF ~c.json_exists THEN "file_not_found"
    ELSE IF ~IsHexInt(c.address_hex) THEN "invalid_address"
    ELSE IF c.contract_matches = 0 THEN "no_contract"
    ELSE IF c.contract_matches > 1 THEN "multiple_contracts"
    ELSE ""

\* the decoder's entry as the plain dict the callers read
EntryDict(e) ==
    [offset |-> e.offset[1], length |-> e.length[1], file_id |-> e.file_id[1]]

---------------------------------------------------------------------------
(* solidity_address_mapper/mapper.py: map_hex_address *)

\* how the try block ends on an exception: a MapperResult naming the contract
PkgFail(error) ==
    /\ stage' = "Failed"
    /\ map_result' = Returned(call.contract_name, <<>>, 0, error)

\* lines 89-112: up to the instruction index and the test on it
PkgResolveBytecode ==
    /\ call.copy = "pkg" /\ stage = "Start"
    /\ map_trace' = Append(map_trace, "disassembly")
    /\ IF EarlyError(call) # ""
       THEN PkgFail(EarlyError(call)) /\ UNCHANGED <<map_dis, map_entry, map_node>>
       ELSE LET r == PkgInstructionIndex(ParseHexInt(call.address_hex), call.bytecode)
            IN  /\ map_dis' = r
                /\ UNCHANGED <<map_entry, map_node>>
                /\ IF r.kind # "ok" THEN PkgFail(r.kind)
                   ELSE IF r.index = 0 THEN PkgFail("address_not_found")
                   ELSE stage' = "BytecodeResolved" /\ UNCHANGED map_result
    /\ UNCHANGED <<call, map_rest>>

\* lines 115-125: the source-map entry; its ValueError is answered at once,
\* with the contract's key as the file
PkgResolveSourceMap ==
    /\ call.copy = "pkg" /\ stage = "BytecodeResolved"
    /\ map_trace' = Append(map_trace, "source_map")
    /\ LET r == PkgInstructionFromIndex(call.srcmap, map_dis.index)
       IN  /\ map_entry' = r
           /\ IF r.kind # "ok"
              THEN /\ stage' = "Failed"
                   /\ map_result' = Returned(call.contract_node, <<>>, 0, r.kind)
              ELSE stage' = "SourceMapResolved" /\ UNCHANGED map_result
    /\ UNCHANGED <<call, map_dis, map_node, map_rest>>

\* _source_code_from_instruction, lines 161-180
PkgSourceCodeFromInstruction(c, entry) ==
    LET ids   == {k \in 1..Len(c.sources) : c.sources[k].id = entry.file_id}
        first == CHOOSE k \in ids : \A j \in ids : k <= j
        name  == c.sources[first].name
        metas == {k \in 1..Len(c.metadata) : c.metadata[k].name = name}
        meta  == c.metadata[CHOOSE k \in metas : \A j \in metas : k <= j]
    IN  IF ids = {} THEN Raised("compiler_internal_file")
        ELSE IF metas = {} THEN Raised("stop_iteration")
        ELSE IF ~meta.has_content THEN Raised("missing_literal_source")
        ELSE LET snippet == ReadSnippetFromString(meta.content, entry.offset, entry.length)
             IN  Returned(name, snippet.code, snippet.line, "")

\* a no-file test that never answers yes
NoFileNever(entry) == FALSE

\* line 127: the entry belongs to no source file
IsNoFile(entry) == entry.file_id = -1

\* lines 127-135: the no-file test, then the literal source
PkgExtractLiteral ==
    /\ call.copy = "pkg" /\ stage = "SourceMapResolved"
    /\ IF IsNoFile(EntryDict(map_entry.entry))
       THEN PkgFail("no_source_file") /\ UNCHANGED map_trace
       ELSE LET r == PkgSourceCodeFromInstruction(call, EntryDict(map_entry.entry))
            IN  /\ map_trace' = Append(map_trace, "literal")
                /\ IF r.outcome = "raised" THEN PkgFail(r.error)
                   ELSE stage' = "LiteralExtracted" /\ map_result' = r
    /\ UNCHANGED <<call, map_dis, map_entry, map_node, map_rest>>

\* the MapperResult reaches the caller
ReturnResult ==
    /\ stage \in {"LiteralExtracted", "Reconstructed"}
    /\ stage' = "Done"
    /\ UNCHANGED <<call, map_dis, map_entry, map_node, map_result, map_trace, map_rest>>

---------------------------------------------------------------------------
(* mapper.py: map_hex_address; nothing catches what its steps raise *)

\* lines 100-113: EarlyError, then the lookup of the source key
RootEarlyError(c) ==
    IF EarlyError(c) # "" THEN EarlyError(c)
    ELSE IF c.source_matches = 0 THEN "no_source"
    ELSE IF c.source_matches > 1 THEN "multiple_sources"
    ELSE ""

\* a failure that is handed back as a MapperResult, the way the package does
RootFailReturning(error) ==
    /\ stage' = "Failed"
    /\ map_result' = Returned(call.contract_name, <<>>, 0, error)

RootFail(error) ==
    /\ stage' = "Failed"
    /\ map_result' = Raised(error)

\* lines 100-120: up to the instruction index and the test on it
RootResolveBytecode ==
    /\ call.copy = "root" /\ stage = "Start"
    /\ map_trace' = Append(map_trace, "disassembly")
    /\ IF RootEarlyError(call) # ""
       THEN RootFail(RootEarlyError(call)) /\ UNCHANGED <<map_dis, map_entry, map_node>>
       ELSE LET r == RootInstructionIndex(ParseHexInt(call.address_hex), call.bytecode)
            IN  /\ map_dis' = r
                /\ UNCHANGED <<map_entry, map_node>>
                /\ IF r.kind # "ok" THEN RootFail(r.kind)
                   ELSE IF r.index = 0 THEN RootFail("address_not_found")
                   ELSE stage' = "BytecodeResolved" /\ UNCHANGED map_result
    /\ UNCHANGED <<call, map_rest>>

\* lines 123-127
RootResolveSourceMap ==
    /\ call.copy = "root" /\ stage = "BytecodeResolved"
    /\ map_trace' = Append(map_trace, "source_map")
    /\ LET r == RootInstructionFromIndex(call.srcmap, map_dis.index)
       IN  /\ map_entry' = r
           /\ IF r.kind # "ok" THEN RootFail(r.kind)
              ELSE stage' = "SourceMapResolved" /\ UNCHANGED map_result
    /\ UNCHANGED <<call, map_dis, map_node, map_rest>>

\* lines 130-131
RootLocateNode ==
    /\ call.copy = "root" /\ stage = "SourceMapResolved"
    /\ map_trace' = Append(map_trace, "ast")
    /\ LET r == AstNodeFromInstruction(call.ast, EntryDict(map_entry.entry))
       IN  /\ map_node' = r
           /\ IF r.kind # "ok" THEN RootFail(r.kind)
              ELSE stage' = "ASTNodeResolved" /\ UNCHANGED map_result
    /\ UNCHANGED <<call, map_dis, map_entry, map_rest>>

\* the lines `for line in file` yields: each ends with its newline, but the last
RECURSIVE FileLines(_)
FileLines(text) ==
    IF text = <<>> THEN <<>>
    ELSE LET k == FirstIndexOf(text, "\n")
         IN  IF k = 0 THEN <<text>>
             ELSE <<SubSeq(text, 1, k)>> \o FileLines(SubSeq(text, k + 1, Len(text)))

\* the loop of _read_snippet_from_file, lines 332-342; None when it runs out
RECURSIVE ReadLines(_, _, _, _, _)
ReadLines(lines, line_count, characters_count, start, length) ==
    IF line_count >= Len(lines) THEN None
    ELSE LET line == lines[line_count + 1]
         IN  IF characters_count + Len(line) >= start
             THEN Some([code |-> Slice(line, start - characters_count,
                                       start - characters_count + length),
                        line |-> line_count + 1])
             ELSE ReadLines(lines, line_count + 1, characters_count + Len(line), start, length)

\* _read_snippet_from_source_code with _read_snippet_from_file, lines 307-368
RootReadSnippetFromSourceCode(c, function_node) ==
    LET span == NodeSpan(function_node)
    IN  IF span.file_id >= Len(c.files) THEN Raised("index_error")
        ELSE LET file_node == c.files[span.file_id + 1]
             IN  IF ~file_node.on_disk THEN Raised("source_file_not_found")
                 ELSE LET snippet == ReadLines(FileLines(file_node.text), 0, 0,
                                               span.offset, span.length)
                      IN  IF snippet = None THEN Raised("type_error")
                          ELSE Returned(file_node.path, snippet[1].code, snippet[1].line, "")

\* what SolidityASTPrinter.reconstruct gives for a node: the text it prints
ReconstructCode(expression) == expression.printed

\* lines 143-149
RootReconstructFromAst(c, function_node) ==
    LET span == NodeSpan(function_node)
    IN  IF span.file_id >= Len(c.files) THEN Raised("index_error")
        ELSE IF function_node.expression = None THEN Raised("key_error")
        ELSE Returned(c.files[span.file_id + 1].path,
                      ReconstructCode(function_node.expression[1]), 0, "")

\* lines 134-140: the snippet from the source file, when a folder is given
\* and the file is there
RootExtractLiteral ==
    /\ call.copy = "root" /\ stage = "ASTNodeResolved"
    /\ call.contracts_folder
    /\ map_trace' = Append(map_trace, "literal")
    /\ LET r == RootReadSnippetFromSourceCode(call, map_node.node)
       IN  IF r.outcome = "returned"
           THEN stage' = "LiteralExtracted" /\ map_result' = r
           ELSE IF r.error = "source_file_not_found"
           THEN stage' = "LiteralMissing" /\ UNCHANGED map_result
           ELSE RootFail(r.error)
    /\ UNCHANGED <<call, map_dis, map_entry, map_node, map_rest>>

\* lines 142-149: no folder, or FileNotFoundError from the snippet
RootReconstruct ==
    /\ call.copy = "root"
    /\ \/ stage = "ASTNodeResolved" /\ ~call.contracts_folder
       \/ stage = "LiteralMissing"
    /\ map_trace' = Append(map_trace, "reconstruct")
    /\ LET r == RootReconstructFromAst(call, map_node.node)
       IN  IF r.outcome = "returned"
           THEN stage' = "Reconstructed" /\ map_result' = r
           ELSE RootFail(r.error)
    /\ UNCHANGED <<call, map_dis, map_entry, map_node, map_rest>>

---------------------------------------------------------------------------
(* Inputs of map_hex_address: a compiler output, an address, a contract name *)

MapAddresses ==
    {<<"0", "x", "0">>, <<"0">>, <<"1">>, <<"0", "x", "2">>, <<"4">>, <<"5">>, <<"6">>,
     <<"g">>, <<"-", "1">>}

MapBytecodes == {<<"6", "0", "8", "0", "6", "0", "4", "0", "5", "2">>, <<>>}

\* "0:3:0:-:0;4:2;", "0:3:0;4:2:-1;1:1:1", ":3;5" and "0:3:0:-:0"
MapSourceMaps ==
    {<<"0", ":", "3", ":", "0", ":", "-", ":", "0", ";", "4", ":", "2", ";">>,
     <<"0", ":", "3", ":", "0", ";", "4", ":", "2", ":", "-", "1", ";",
       "1", ":", "1", ":", "1">>,
     <<":", "3", ";", "5">>,
     <<"0", ":", "3", ":", "0", ":", "-", ":", "0">>}

\* "ab\ncdefgh\ni"
SourceText == <<"a", "b", "\n", "c", "d", "e", "f", "g", "h", "\n", "i">>

\* "lib\nrary"
LibraryText == <<"l", "i", "b", "\n", "r", "a", "r", "y">>

MapMetadata ==
    {<<[name |-> "Token.sol", has_content |-> TRUE, content |-> SourceText]>>,
     <<[name |-> "Token.sol", has_content |-> FALSE, content |-> <<>>]>>,
     <<[name |-> "Lib.sol", has_content |-> TRUE, content |-> LibraryText],
       [name |-> "Token.sol", has_content |-> TRUE, content |-> SourceText]>>}

\* the "sources" of the compiler output: the contract's file alone, or behind
\* a library file
MapSources ==
    {<<[name |-> "Token.sol", id |-> 0]>>,
     <<[name |-> "Lib.sol", id |-> 0], [name |-> "Token.sol", id |-> 1]>>}

PkgCalls ==
    [copy : {"pkg"}, json_exists : BOOLEAN, address_hex : MapAddresses,
     contract_name : {"Token"}, contract_node : {"Token.sol"}, contract_matches : {0, 1, 2},
     bytecode : MapBytecodes, srcmap : MapSourceMaps,
     sources : MapSources, metadata : MapMetadata]

\* a node with its src, its children and its 'expression' entry, None for a
\* node that has none
AstNode(src, expression, kids) ==
    [src |-> Some(src), kids |-> kids, expression |-> expression]

\* an expression that prints as f()
CallExpression == Some([printed |-> <<"f", "(", ")">>])

\* a source unit 0:11:0 over a statement with an expression, over a bare
\* statement, and over nothing that holds 4:2:0
MapAsts ==
    {AstNode(<<"0", ":", "1", "1", ":", "0">>, None,
             <<AstNode(<<"3", ":", "4", ":", "0">>, CallExpression, <<>>)>>),
     AstNode(<<"0", ":", "1", "1", ":", "0">>, None,
             <<AstNode(<<"4", ":", "2", ":", "0">>, None, <<>>)>>),
     AstNode(<<"0", ":", "3", ":", "0">>, None, <<>>)}

RootCalls ==
    [copy : {"root"}, json_exists : BOOLEAN, address_hex : MapAddresses,
     contract_name : {"Token"}, contract_matches : {0, 1, 2}, source_matches : {0, 1},
     bytecode : MapBytecodes, srcmap : MapSourceMaps, ast : MapAsts,
     contracts_folder : BOOLEAN,
     files : {<<[path |-> "Token.sol", on_disk |-> d, text |-> SourceText]>> : d \in BOOLEAN}]

---------------------------------------------------------------------------
(* One call of map_hex_address as a state machine, a step per stage *)

MapInit ==
    /\ call \in PkgCalls \cup RootCalls
    /\ stage = "Start"
    /\ map_dis = Pending /\ map_entry = SmPending /\ map_node = AstPending
    /\ map_result = NoResult
    /\ map_trace = <<>>

MapNext ==
    \/ PkgResolveBytecode \/ PkgResolveSourceMap \/ PkgExtractLiteral
    \/ RootResolveBytecode \/ RootResolveSourceMap \/ RootLocateNode
    \/ RootExtractLiteral \/ RootReconstruct
    \/ ReturnResult

---------------------------------------------------------------------------
(* solidity_address_mapper/reconstructor.py: SolidityASTReconstructor *)

\* A text is the sequence of the pieces it is concatenated from; an AST node is
\* a record of its JSON entries; Missing is what node.get(key, {}) gives for a
\* key the node does not have, and stands for None as well.
Missing == <<>>

Get(node, key, default) == IF key \in DOMAIN node THEN node[key] ELSE default

\* a str entry as a text: '' adds nothing
Piece(s) == IF s = "" THEN <<>> ELSE <<s>>

\* the keys of self._handlers that the model prints; the other handlers of
\* the table are left out of the generated nodes
Handled ==
    {"Identifier", "Literal", "BinaryOperation", "UnaryOperation", "FunctionCall",
     "ExpressionStatement", "Return", "Block",
     "ElementaryTypeName", "VariableDeclaration", "ParameterList", "FunctionDefinition"}

RECURSIVE Reconstruct(_)
RECURSIVE ReconstructEach(_)

\* [self.reconstruct(n) for n in nodes]
ReconstructEach(nodes) ==
    IF nodes = <<>> THEN <<>>
    ELSE <<Reconstruct(Head(nodes))>> \o ReconstructEach(Tail(nodes))

HandleIdentifier(node) == Piece(Get(node, "name", ""))

HandleLiteral(node) ==
    LET kind  == Get(node, "kind", "")
        value == Get(node, "value", "")
    IN  IF kind = "string" THEN <<"\"">> \o Piece(value) \o <<"\"">>
        ELSE IF kind = "bool" THEN (IF value # "" THEN <<"true">> ELSE <<"false">>)
        ELSE Piece(value)

\* a rule for binary operations that leaves the parentheses out
HandleBinaryOperationBare(node) ==
    Reconstruct(Get(node, "leftExpression", Missing)) \o <<" ">>
        \o Piece(Get(node, "operator", "")) \o <<" ">>
        \o Reconstruct(Get(node, "rightExpression", Missing))

HandleBinaryOperation(node) ==
    <<"(">> \o Reconstruct(Get(node, "leftExpression", Missing)) \o <<" ">>
        \o Piece(Get(node, "operator", "")) \o <<" ">>
        \o Reconstruct(Get(node, "rightExpression", Missing)) \o <<")">>

HandleUnaryOperation(node) ==
    LET expr == Reconstruct(Get(node, "subExpression", Missing))
        op   == Piece(Get(node, "operator", ""))
    IN  IF Get(node, "prefix", TRUE) THEN op \o expr ELSE expr \o op

HandleFunctionCall(node) ==
    Reconstruct(Get(node, "expression", Missing)) \o <<"(">>
        \o JoinWith(ReconstructEach(Get(node, "arguments", <<>>)), ", ") \o <<")">>

HandleExpressionStatement(node) ==
    Reconstruct(Get(node, "expression", Missing)) \o <<";">>

HandleReturn(node) ==
    LET expr == IF Get(node, "expression", Missing) # Missing
                THEN Reconstruct(node.expression) ELSE <<>>
    IN  IF expr # <<>> THEN <<"return ">> \o expr \o <<";">> ELSE <<"return;">>

HandleBlock(node) ==
    <<"{\n">> \o JoinWith(ReconstructEach(Get(node, "statements", <<>>)), "\n") \o <<"\n}">>

HandleElementaryTypeName(node) == Piece(Get(node, "name", ""))

HandleParameterList(node) ==
    JoinWith(ReconstructEach(Get(node, "parameters", <<>>)), ", ")

\* result is the list of the parts that are not empty, joined by ' '
HandleVariableDeclaration(node) ==
    LET typ    == Reconstruct(Get(node, "typeName", Missing))
        value  == Get(node, "value", Missing)
        parts  == <<typ,
                    Piece(Get(node, "storageLocation", "")),
                    Piece(Get(node, "name", "")),
                    Piece(Get(node, "visibility", "")),
                    Piece(Get(node, "stateMutability", "")),
                    IF value # Missing THEN <<"= ">> \o Reconstruct(value) ELSE <<>>>>
        result == SelectSeq(parts, LAMBDA part : part # <<>>)
    IN  JoinWith(result, " ")

\* the same with the returns clause printed whether or not there are return
\* parameters
HandleFunctionDefinitionAlwaysReturns(node) ==
    LET params     == Get(Get(node, "parameters", Missing), "parameters", <<>>)
        ret_params == Get(Get(node, "returnParameters", Missing), "parameters", <<>>)
        param_str  == JoinWith(ReconstructEach(params), ", ")
        ret_str    == <<" returns (">> \o JoinWith(ReconstructEach(ret_params), ", ") \o <<")">>
        body       == IF Get(node, "body", Missing) # Missing
                      THEN Reconstruct(node.body) ELSE <<";">>
    IN  <<"function ">> \o Piece(Get(node, "name", "")) \o <<"(">> \o param_str \o <<") ">>
            \o Piece(Get(node, "visibility", "")) \o <<" ">>
            \o Piece(Get(node, "stateMutability", "")) \o ret_str \o <<" ">> \o body

HandleFunctionDefinition(node) ==
    LET params     == Get(Get(node, "parameters", Missing), "parameters", <<>>)
        ret_params == Get(Get(node, "returnParameters", Missing), "parameters", <<>>)
        param_str  == JoinWith(ReconstructEach(params), ", ")
        ret_str    == IF ret_params # <<>>
                      THEN <<" returns (">> \o JoinWith(ReconstructEach(ret_params), ", ")
                               \o <<")">>
                      ELSE <<>>
        body       == IF Get(node, "body", Missing) # Missing
                      THEN Reconstruct(node.body) ELSE <<";">>
    IN  <<"function ">> \o Piece(Get(node, "name", "")) \o <<"(">> \o param_str \o <<") ">>
            \o Piece(Get(node, "visibility", "")) \o <<" ">>
            \o Piece(Get(node, "stateMutability", "")) \o ret_str \o <<" ">> \o body

\* a reconstruct that prints nothing for a node type without a handler
ReconstructDroppingUnhandled(node_type) == <<>>

\* line 85
Unhandled(node_type) == <<"<unhandled ", node_type, ">">>

Reconstruct(node) ==
    LET node_type == Get(node, "nodeType", "")
    IN  IF node_type = "" THEN <<>>
        ELSE IF node_type = "Identifier" THEN HandleIdentifier(node)
        ELSE IF node_type = "Literal" THEN HandleLiteral(node)
        ELSE IF node_type = "BinaryOperation" THEN HandleBinaryOperation(node)
        ELSE IF node_type = "UnaryOperation" THEN HandleUnaryOperation(node)
        ELSE IF node_type = "FunctionCall" THEN HandleFunctionCall(node)
        ELSE IF node_type = "ExpressionStatement" THEN HandleExpressionStatement(node)
        ELSE IF node_type = "Return" THEN HandleReturn(node)
        ELSE IF node_type = "Block" THEN HandleBlock(node)
        ELSE IF node_type = "ElementaryTypeName" THEN HandleElementaryTypeName(node)
        ELSE IF node_type = "ParameterList" THEN HandleParameterList(node)
        ELSE IF node_type = "VariableDeclaration" THEN HandleVariableDeclaration(node)
        ELSE IF node_type = "FunctionDefinition" THEN HandleFunctionDefinition(node)
        ELSE Unhandled(node_type)

---------------------------------------------------------------------------
(* The snippet readers as a state machine: a text and a range, then the calls *)

SourceChars == {"a", "b", "\n"}

SourceTexts == SeqsUpTo(SourceChars, MaxText)

SnippetPending == [code |-> <<>>, line |-> 0]

SnipInit ==
    /\ source_text \in SourceTexts
    /\ snip_start \in 0 .. MaxText + 1
    /\ snip_length \in 0 .. MaxSnippet
    /\ string_snippet = SnippetPending
    /\ file_snippet = Some(SnippetPending)

CallReadSnippetFromString ==
    /\ string_snippet = SnippetPending
    /\ string_snippet' = ReadSnippetFromString(source_text, snip_start, snip_length)
    /\ UNCHANGED <<source_text, snip_start, snip_length, file_snippet, snip_rest>>

\* mapper.py: _read_snippet_from_file on a file that holds the text
CallReadSnippetFromFile ==
    /\ file_snippet = Some(SnippetPending)
    /\ file_snippet' = ReadLines(FileLines(source_text), 0, 0, snip_start, snip_length)
    /\ UNCHANGED <<source_text, snip_start, snip_length, string_snippet, snip_rest>>

\* the next call reads the same text one character further on
NextStart ==
    /\ string_snippet # SnippetPending \/ file_snippet # Some(SnippetPending)
    /\ snip_start <= MaxText
    /\ snip_start' = snip_start + 1
    /\ string_snippet' = SnippetPending
    /\ file_snippet' = Some(SnippetPending)
    /\ UNCHANGED <<source_text, snip_length, snip_rest>>

SnipNext == CallReadSnippetFromString \/ CallReadSnippetFromFile \/ NextStart

---------------------------------------------------------------------------
(* Inputs of the reconstructor: the nodes of up to MaxAstSize entries *)

Identifier(name) == [nodeType |-> "Identifier", name |-> name]

Literal(kind, value) == [nodeType |-> "Literal", kind |-> kind, value |-> value]

\* a node type that self._handlers does not list
Unlisted(node_type) == [nodeType |-> node_type, name |-> "x"]

BinaryOperation(op, left, right) ==
    [nodeType |-> "BinaryOperation", operator |-> op,
     leftExpression |-> left, rightExpression |-> right]

UnaryOperation(op, sub) ==
    [nodeType |-> "UnaryOperation", operator |-> op, prefix |-> TRUE, subExpression |-> sub]

FunctionCall(expr, args) ==
    [nodeType |-> "FunctionCall", expression |-> expr, arguments |-> args]

ExpressionStatement(expr) == [nodeType |-> "ExpressionStatement", expression |-> expr]

\* the nodes of exactly n entries, an absent operand counting as one
RECURSIVE NodesOf(_)
NodesOf(n) ==
    IF n = 1
    THEN {Identifier("a"), Literal("number", "1"), Unlisted("YulIdentifier"), Missing}
    ELSE {UnaryOperation("!", e) : e \in NodesOf(n - 1)}
         \cup {ExpressionStatement(e) : e \in NodesOf(n - 1)}
         \cup UNION {{BinaryOperation("+", l, r) : l \in NodesOf(k), r \in NodesOf(n - 1 - k)}
                        : k \in 1 .. n - 2}
         \cup UNION {{FunctionCall(f, <<a>>) : f \in NodesOf(k), a \in NodesOf(n - 1 - k)}
                        : k \in 1 .. n - 2}

ElementaryTypeName(name) == [nodeType |-> "ElementaryTypeName", name |-> name]

VariableDeclaration(type, name) ==
    [nodeType |-> "VariableDeclaration", name |-> name,
     typeName |-> ElementaryTypeName(type), storageLocation |-> "default"]

ParameterList(parameters) == [nodeType |-> "ParameterList", parameters |-> parameters]

ReturnStatement == [nodeType |-> "Return"]

Block(statements) == [nodeType |-> "Block", statements |-> statements]

\* function definitions with no, one or two parameters, no returnParameters
\* entry, an empty one or one return parameter, and no body, an empty one or
\* one of a single statement
FunctionDefinitions ==
    {[nodeType |-> "FunctionDefinition", name |-> "f", visibility |-> "public",
      stateMutability |-> mutability, parameters |-> ParameterList(params),
      returnParameters |-> rets, body |-> body] :
        mutability \in {"view", ""},
        params \in {<<>>, <<VariableDeclaration("uint", "a")>>,
                    <<VariableDeclaration("uint", "a"), VariableDeclaration("bool", "b")>>,
                    <<Unlisted("YulIdentifier"), VariableDeclaration("bool", "b")>>},
        rets \in {Missing, ParameterList(<<>>),
                  ParameterList(<<VariableDeclaration("uint", "")>>)},
        body \in {Missing, Block(<<>>), Block(<<ReturnStatement>>)}}

\* the two bool literals as the compiler writes them, alone and as operands
BoolLiterals == {Literal("bool", "true"), Literal("bool", "false")}

BoolNodes ==
    BoolLiterals \cup {BinaryOperation("&&", l, r) : l \in BoolLiterals, r \in BoolLiterals}

AstNodes == UNION {NodesOf(n) : n \in 1 .. MaxAstSize} \cup BoolNodes

\* the nodes a node's rule prints, in the order it prints them
PrintedChildren(node) ==
    LET node_type == Get(node, "nodeType", "")
    IN  IF node_type = "BinaryOperation" THEN <<node.leftExpression, node.rightExpression>>
        ELSE IF node_type = "UnaryOperation" THEN <<node.subExpression>>
        ELSE IF node_type = "FunctionCall" THEN <<node.expression>> \o node.arguments
        ELSE IF node_type = "ExpressionStatement" THEN <<node.expression>>
        ELSE IF node_type = "Block" THEN node.statements
        ELSE IF node_type = "ParameterList" THEN node.parameters
        ELSE IF node_type = "VariableDeclaration" THEN <<node.typeName>>
        ELSE IF node_type = "FunctionDefinition"
        THEN Get(node.parameters, "parameters", <<>>)
                 \o Get(node.returnParameters, "parameters", <<>>)
                 \o (IF node.body # Missing THEN <<node.body>> ELSE <<>>)
        ELSE <<>>

---------------------------------------------------------------------------
(* The reconstructor as a state machine: a node, then the call on it *)

NotReconstructed == <<"pending">>

RecInit ==
    /\ ast_node \in AstNodes
    /\ reconstructed = NotReconstructed

CallReconstruct ==
    /\ reconstructed = NotReconstructed
    /\ reconstructed' = <<Reconstruct(ast_node)>>
    /\ UNCHANGED <<ast_node, rec_rest>>

\* the next call prints one of the children of the node
NextChild ==
    /\ reconstructed # NotReconstructed
    /\ \E k \in 1 .. Len(PrintedChildren(ast_node)) :
          ast_node' = PrintedChildren(ast_node)[k]
    /\ reconstructed' = NotReconstructed
    /\ UNCHANGED rec_rest

RecNext == CallReconstruct \/ NextChild

\* the same machine started on a function definition
FunInit ==
    /\ ast_node \in FunctionDefinitions
    /\ reconstructed = NotReconstructed

---------------------------------------------------------------------------
(* Specifications: one per component, the others at rest *)

LogIdle == decode_log = <<>>

DisIdle ==
    /\ bytecode = <<>> /\ pc = 0
    /\ dis_result = Pending /\ dis_result_root = Pending /\ dis_calls = {}

SmIdle ==
    /\ srcmap = <<>> /\ instruction_index = 0
    /\ instruction = SmPending /\ instruction_root = SmPending

AstIdle ==
    /\ ast_json = NoMatch.node /\ source_location = [offset |-> 0, length |-> 0, file_id |-> 0]
    /\ best_match = AstPending

MapIdle ==
    /\ call = [copy |-> "none"] /\ stage = "Idle"
    /\ map_dis = Pending /\ map_entry = SmPending /\ map_node = AstPending
    /\ map_result = NoResult /\ map_trace = <<>>

RecIdle == ast_node = Missing /\ reconstructed = NotReconstructed

SnipIdle ==
    /\ source_text = <<>> /\ snip_start = 0 /\ snip_length = 0
    /\ string_snippet = SnippetPending /\ file_snippet = Some(SnippetPending)

DisSpecInit == DisInit /\ SmIdle /\ AstIdle /\ MapIdle /\ SnipIdle /\ RecIdle /\ LogIdle

SpecDis == DisSpecInit /\ [][DisNext]_vars

DisCompiledSpecInit ==
    DisCompiledInit /\ SmIdle /\ AstIdle /\ MapIdle /\ SnipIdle /\ RecIdle /\ LogIdle

SpecDisCompiled == DisCompiledSpecInit /\ [][DisNext]_vars

SmSpecInit == SmInit /\ DisIdle /\ AstIdle /\ MapIdle /\ SnipIdle /\ RecIdle /\ LogIdle

SpecSrcMap == SmSpecInit /\ [][SmNext]_vars

AstSpecInit == AstInit /\ DisIdle /\ SmIdle /\ MapIdle /\ SnipIdle /\ RecIdle /\ LogIdle

SpecAst == AstSpecInit /\ [][AstNext]_vars

MapSpecInit == MapInit /\ DisIdle /\ SmIdle /\ AstIdle /\ SnipIdle /\ RecIdle /\ LogIdle

SpecMapper == MapSpecInit /\ [][MapNext]_vars

SnipSpecInit == SnipInit /\ DisIdle /\ SmIdle /\ AstIdle /\ MapIdle /\ RecIdle /\ LogIdle

SpecSnippet == SnipSpecInit /\ [][SnipNext]_vars

RecSpecInit == RecInit /\ DisIdle /\ SmIdle /\ AstIdle /\ MapIdle /\ SnipIdle /\ LogIdle

SpecReconstruct == RecSpecInit /\ [][RecNext]_vars

FunSpecInit == FunInit /\ DisIdle /\ SmIdle /\ AstIdle /\ MapIdle /\ SnipIdle /\ LogIdle

SpecFunctionDefinition == FunSpecInit /\ [][RecNext]_vars

LogSpecInit == LogInit /\ DisIdle /\ SmIdle /\ AstIdle /\ MapIdle /\ SnipIdle /\ RecIdle

SpecDecodeCalls == LogSpecInit /\ [][LogNext]_vars

---------------------------------------------------------------------------
(* Claims about the disassembler, checked under SpecDis and, those about
   valid bytecode only, under SpecDisCompiled *)

PkgCalled == "pkg" \in dis_calls

Decoded == DecodedBytes(bytecode)

\* 6080604052: PUSH1 0x80, PUSH1 0x40, MSTORE
Scenario6080604052 == <<"6","0","8","0","6","0","4","0","5","2">>

\* C1: for a valid bytecode and a byte position inside it, the index returned
\* is the ordinal of the instruction owning that byte in the reference
\* disassembly (the opcode byte or one of its PUSH operand bytes); on
\* 6080604052 pc 0, 1, 2, 4 give 0, 0, 1, 2.
C1_IndexIsOwningInstruction ==
    /\ (PkgCalled /\ IsValidBytecode(bytecode) /\ pc >= 0 /\ pc < Len(Decoded))
          => dis_result = Ok(RefOwner(Decoded, pc))
    /\ PkgInstructionIndex(0, Scenario6080604052) = Ok(0)
    /\ PkgInstructionIndex(1, Scenario6080604052) = Ok(0)
    /\ PkgInstructionIndex(2, Scenario6080604052) = Ok(1)
    /\ PkgInstructionIndex(4, Scenario6080604052) = Ok(2)

\* a PUSH operand byte behind at least one earlier instruction was looked up
C1_Witness ==
    /\ PkgCalled /\ IsValidBytecode(bytecode) /\ pc >= 0 /\ pc < Len(Decoded)
    /\ dis_result.kind = "ok" /\ dis_result.index >= 1
    /\ InstructionMap(Decoded)[dis_result.index + 1].start < pc

C4_EndReturnsInstructionCount ==
    (PkgCalled /\ IsValidBytecode(bytecode) /\ pc = Len(Decoded))
        => dis_result = Ok(Len(InstructionMap(Decoded)))

\* what is left of the string once an optional 0x is removed
Stripped == IF StartsWith0x(bytecode) THEN SubSeq(bytecode, 3, Len(bytecode)) ELSE bytecode

\* C5: for every pc >= 0 the call fails with a bytecode error when the
\* bytecode is empty after removing an optional 0x, has odd length or holds
\* a character that is no hex digit.
C5_BadBytecodeFails ==
    (/\ PkgCalled /\ pc >= 0
     /\ \/ Stripped = <<>>
        \/ Len(Stripped) % 2 = 1
        \/ \E i \in 1..Len(Stripped) : ~IsHexChar(Stripped[i]))
        => dis_result.kind \in {"empty_bytecode", "invalid_hex"}

\* C20: for a valid bytecode the packaged index is monotonically
\* non-decreasing over the byte positions inside it: every position at or
\* before the looked-up pc gets an index, and that index is not greater than
\* the one returned for pc.
C20_IndexMonotoneInPc ==
    (PkgCalled /\ IsValidBytecode(bytecode) /\ pc >= 0 /\ pc < Len(Decoded))
        => /\ dis_result.kind = "ok"
           /\ \A pc1 \in 0..pc :
                 LET earlier == PkgInstructionIndex(pc1, bytecode)
                 IN  earlier.kind = "ok" /\ earlier.index <= dis_result.index

\* a pc behind a PUSH operand was looked up: one earlier position shares its
\* index, another has a strictly smaller one
C20_Witness ==
    /\ PkgCalled /\ IsValidBytecode(bytecode) /\ pc >= 2 /\ pc < Len(Decoded)
    /\ dis_result.kind = "ok"
    /\ \E pc1 \in 0..(pc - 1) :
          PkgInstructionIndex(pc1, bytecode).index < dis_result.index
    /\ \E pc1 \in 0..(pc - 1) :
          PkgInstructionIndex(pc1, bytecode).index = dis_result.index

\* the operand length C22 states for an opcode byte: opcode - 0x5f for
\* 0x60..0x7f, none for any other byte
StatedOperandLength(op) == IF 96 <= op /\ op <= 127 THEN op - 95 ELSE 0

FirstOpcode == Decoded[1]

\* C22: an opcode byte is a PUSH with operand length opcode - 0x5f exactly
\* when it lies in 0x60..0x7f, and a one-byte instruction otherwise (0x5f,
\* 0x80 and unassigned bytes included). Seen through the first instruction
\* of a valid bytecode: the positions up to its stated operand length have
\* index 0, the position behind them has index 1, and when the bytecode holds
\* nothing further the length reported beyond its end is one plus the stated
\* operand length; the bytes 0x00, 0x0c, 0x5f, 0x80 and 0xff take no operand
\* and 0x60 takes one.
C22_PushRangeAndOperandLength ==
    /\ (PkgCalled /\ IsValidBytecode(bytecode) /\ pc >= 0)
          => LET n == StatedOperandLength(FirstOpcode)
             IN  /\ pc <= n => dis_result = Ok(0)
                 /\ (pc = n + 1 /\ Len(Decoded) >= n + 2) => dis_result = Ok(1)
                 /\ (pc > n + 1 /\ Len(Decoded) <= n + 1)
                       => dis_result = Err("out_of_range", n + 1)
    /\ \A op \in {0, 12, 95, 128, 255} : PkgIndexAfterDecode(1, <<op, 0>>) = Ok(1)
    /\ PkgIndexAfterDecode(1, <<96, 0, 0>>) = Ok(0)
    /\ PkgIndexAfterDecode(2, <<96, 0, 0>>) = Ok(1)

\* a lone PUSH32 was looked up beyond its 32 implied operand bytes
C22_Witness ==
    /\ PkgCalled /\ IsValidBytecode(bytecode)
    /\ Decoded = <<PUSH32>> /\ pc = 34
    /\ dis_result = Err("out_of_range", 33)

TrailingInstruction == InstructionMap(Decoded)[Len(InstructionMap(Decoded))]

\* C23: when the bytecode ends with a PUSH whose operand is truncated, every
\* pc at or after the end of the actual bytes and before the end of the
\* implied zero-padded operand returns the index of that trailing PUSH, the
\* same index as its opcode byte, and neither an error nor a new index.
C23_TruncatedPushOperandKeepsIndex ==
    (PkgCalled /\ IsValidBytecode(bytecode) /\ Len(Decoded) <= pc)
        => LET push == TrailingInstruction
           IN  pc <= push.end
                  => /\ dis_result = Ok(push.idx)
                     /\ dis_result = PkgInstructionIndex(push.start, bytecode)

\* a pc in the implied operand of a truncated PUSH that follows another
\* instruction was looked up
C23_Witness ==
    /\ PkgCalled /\ IsValidBytecode(bytecode)
    /\ Len(Decoded) <= pc /\ pc <= TrailingInstruction.end
    /\ TrailingInstruction.idx >= 1
    /\ TrailingInstruction.start + 1 < Len(Decoded)
    /\ dis_result = Ok(TrailingInstruction.idx)

\* the bytecode is empty once an optional 0x is removed, or is no hex string
\* of an even number of characters
EmptyOrInvalidHex ==
    \/ Stripped = <<>>
    \/ Len(Stripped) % 2 = 1
    \/ \E i \in 1..Len(Stripped) : ~IsHexChar(Stripped[i])

\* C27: a failing call reports one of three errors by fixed precedence: the
\* negative-pc error whenever pc is negative, whatever the bytecode; else the
\* bytecode error whenever the bytecode is empty or no valid hex, whatever
\* the pc; else the out-of-range error; and no index is returned when pc is
\* negative or the bytecode is empty or invalid.
C27_ErrorPrecedence ==
    PkgCalled =>
        /\ dis_result.kind \in {"ok", "negative_pc", "empty_bytecode", "invalid_hex",
                                "out_of_range"}
        /\ pc < 0 => dis_result.kind = "negative_pc"
        /\ (pc >= 0 /\ EmptyOrInvalidHex)
              => dis_result.kind \in {"empty_bytecode", "invalid_hex"}
        /\ (pc >= 0 /\ ~EmptyOrInvalidHex /\ dis_result.kind # "ok")
              => dis_result.kind = "out_of_range"

BothCalled == dis_calls = {"pkg", "root"}

\* C28: the two copies of _instruction_index_from_hex_address are equivalent:
\* for every bytecode and pc either both fail or both return the same index.
C28_CopiesAgree ==
    BothCalled =>
        \/ dis_result.kind # "ok" /\ dis_result_root.kind # "ok"
        \/ /\ dis_result.kind = "ok" /\ dis_result_root.kind = "ok"
           /\ dis_result.index = dis_result_root.index

---------------------------------------------------------------------------
(* Claims about the source-map decoder, checked under SpecSrcMap *)

PkgDecoded == instruction # SmPending

EntryCount == Len(Split(srcmap, ";"))

FieldNames == <<"offset", "length", "file_id", "jump", "modifiers">>

\* field f (1..5) of entry j (0-based) is written and not empty
FieldPresent(map, j, f) ==
    LET parts == Split(Split(map, ";")[j + 1], ":")
    IN  Len(parts) >= f /\ parts[f] # <<>>

FieldValue(map, j, f) ==
    LET parts == Split(Split(map, ";")[j + 1], ":")
    IN  IF f = 4 THEN parts[f] ELSE ParseInt(parts[f])

\* the value of field f in the last entry at or before i that has it
Inherited(map, i, f) ==
    LET J == {j \in 0..i : FieldPresent(map, j, f)}
    IN  IF J = {} THEN None
        ELSE Some(FieldValue(map, CHOOSE j \in J : \A k \in J : k <= j, f))

\* 10:5:0;;20:3:1
Scenario10_5_0 ==
    <<"1","0",":","5",":","0",";",";","2","0",":","3",":","1">>

\* C6: for an index in range, each of the five fields of the returned entry
\* is the value of that field in the last entry at or before the index in
\* which it is present and non-empty, unknown if there is none; an entry is
\* returned whenever offset, length and file_id have such an entry; and
\* 10:5:0;;20:3:1 at index 1 gives 10, 5, 0, unknown, unknown.
C6_FieldsInheritIndependently ==
    /\ (PkgDecoded /\ instruction_index >= 0 /\ instruction_index < EntryCount
           /\ instruction.kind = "ok")
          => \A f \in 1..5 :
                instruction.entry[FieldNames[f]] = Inherited(srcmap, instruction_index, f)
    /\ (PkgDecoded /\ instruction_index >= 0 /\ instruction_index < EntryCount
           /\ \A f \in 1..3 : Inherited(srcmap, instruction_index, f) # None)
          => instruction.kind = "ok"
    /\ PkgInstructionFromIndex(Scenario10_5_0, 1) =
          SmOk([offset |-> Some(10), length |-> Some(5), file_id |-> Some(0),
                jump |-> None, modifiers |-> None])

\* an entry was returned with one field of its own and one inherited
C6_Witness ==
    /\ PkgDecoded /\ instruction.kind = "ok" /\ instruction_index >= 1
    /\ \E f, g \in 1..5 :
          /\ FieldPresent(srcmap, instruction_index, f)
          /\ ~FieldPresent(srcmap, instruction_index, g)
          /\ instruction.entry[FieldNames[g]] # None

\* C7: once the scan has run, the call fails with the incomplete-entry error
\* exactly when offset, length or file_id is unresolved; an unresolved jump
\* or modifiers is returned as unknown, and a returned entry has offset,
\* length and file_id defined.
C7_OnlyMandatoryFieldsFail ==
    (PkgDecoded /\ instruction_index < EntryCount) =>
        /\ instruction.kind \in {"ok", "incomplete"}
        /\ instruction.kind = "incomplete"
              <=> \E f \in 1..3 : Inherited(srcmap, instruction_index, f) = None
        /\ instruction.kind = "ok" =>
              /\ instruction.entry.offset # None
              /\ instruction.entry.length # None
              /\ instruction.entry.file_id # None
              /\ instruction.entry.jump = Inherited(srcmap, instruction_index, 4)
              /\ instruction.entry.modifiers = Inherited(srcmap, instruction_index, 5)

\* an entry was returned whose jump is unknown and whose modifiers is known
C7_Witness ==
    /\ PkgDecoded /\ instruction.kind = "ok"
    /\ instruction.entry.jump = None
    /\ instruction.entry.modifiers # None

\* C8: an index outside 0 <= index < entry count, negative ones included,
\* fails with the index-out-of-bounds error naming the entry count.
C8_OutOfBoundsIndexFails ==
    (PkgDecoded /\ (instruction_index >= EntryCount \/ instruction_index < 0))
        => instruction = SmErr("index_out_of_bounds", EntryCount, "")

---------------------------------------------------------------------------
(* Claims about the AST locator, checked under SpecAst *)

Located == best_match # AstPending

\* every node of the tree, a parent before its children
RECURSIVE PreOrder(_)
RECURSIVE PreOrderAll(_)
PreOrder(node) == <<node>> \o PreOrderAll(node.kids)

PreOrderAll(nodes) ==
    IF nodes = <<>> THEN <<>> ELSE PreOrder(Head(nodes)) \o PreOrderAll(Tail(nodes))

AllNodes == PreOrder(ast_json)

LengthOf(node) == NodeSpan(node).length

\* node holds [t.offset, t.offset + len) of file t.file_id
Holds(node, t, len) ==
    /\ node.src # None
    /\ NodeSpan(node).file_id = t.file_id
    /\ NodeSpan(node).offset <= t.offset
    /\ NodeSpan(node).offset + NodeSpan(node).length >= t.offset + len

Leaf(src) == [src |-> Some(src), kids |-> <<>>]

\* ExpressionStatement 40:10:0
ScenarioStatement == Leaf(<<"4","0",":","1","0",":","0">>)

\* Block 0:100:0 holding the ExpressionStatement
ScenarioBlock ==
    [src |-> Some(<<"0",":","1","0","0",":","0">>), kids |-> <<ScenarioStatement>>]

\* C9: the node returned is a node of the tree with the target's file id,
\* offset <= target.offset and offset + length >= target.offset +
\* max(target.length, 1); no node of the tree with these three properties is
\* shorter; a node is returned whenever one has them; and for Block 0:100:0
\* holding ExpressionStatement 40:10:0 the target 42:2:0 gives the statement.
C9_SmallestQualifyingNode ==
    /\ (Located /\ best_match.kind = "ok") =>
          /\ best_match.visit \in 1..Len(AllNodes)
          /\ AllNodes[best_match.visit] = best_match.node
          /\ Holds(best_match.node, source_location, Max(source_location.length, 1))
          /\ \A k \in 1..Len(AllNodes) :
                Holds(AllNodes[k], source_location, Max(source_location.length, 1))
                   => LengthOf(AllNodes[k]) >= LengthOf(best_match.node)
    /\ (Located /\ \E k \in 1..Len(AllNodes) :
                      Holds(AllNodes[k], source_location, Max(source_location.length, 1)))
          => best_match.kind = "ok"
    /\ AstNodeFromInstruction(ScenarioBlock, [offset |-> 42, length |-> 2, file_id |-> 0]).node
          = ScenarioStatement

\* a node below a root that qualifies too was returned, being shorter
C9_Witness ==
    /\ Located /\ best_match.kind = "ok" /\ best_match.visit >= 2
    /\ Holds(ast_json, source_location, Max(source_location.length, 1))
    /\ LengthOf(best_match.node) < LengthOf(ast_json)

\* C10 as stated: the node returned has the target's file id, offset <=
\* target.offset and offset + length >= target.offset + target.length, and no
\* node holding the target range in that sense, with the target's own length
\* (0 included), is shorter.
C10_MinimalForOwnLength ==
    (Located /\ best_match.kind = "ok") =>
        /\ Holds(best_match.node, source_location, source_location.length)
        /\ \A k \in 1..Len(AllNodes) :
              Holds(AllNodes[k], source_location, source_location.length)
                 => LengthOf(AllNodes[k]) >= LengthOf(best_match.node)

\* C10 amended: the node returned has the target's file id, offset <=
\* target.offset and offset + length >= target.offset + target.length, and it
\* is the shortest of the nodes that hold the target range with a target of
\* length 0 taken as one of length 1, itself being one of them.
C10_MinimalForLengthAtLeastOne ==
    (Located /\ best_match.kind = "ok") =>
        /\ Holds(best_match.node, source_location, source_location.length)
        /\ \E k \in 1..Len(AllNodes) :
              /\ AllNodes[k] = best_match.node
              /\ Holds(AllNodes[k], source_location, Max(source_location.length, 1))
        /\ \A k \in 1..Len(AllNodes) :
              (/\ Holds(AllNodes[k], source_location, source_location.length)
               /\ NodeSpan(AllNodes[k]).offset + LengthOf(AllNodes[k])
                     >= source_location.offset + 1)
                 => LengthOf(AllNodes[k]) >= LengthOf(best_match.node)

\* a node was returned for a target of length 0 while a shorter node ends
\* exactly at the target's offset
C10_Witness ==
    /\ Located /\ best_match.kind = "ok" /\ source_location.length = 0
    /\ \E k \in 1..Len(AllNodes) :
          /\ Holds(AllNodes[k], source_location, 0)
          /\ ~Holds(AllNodes[k], source_location, 1)
          /\ LengthOf(AllNodes[k]) < LengthOf(best_match.node)

\* the file ids that occur in the src of some node of the tree
FileIdsOfTree ==
    {NodeSpan(AllNodes[k]).file_id : k \in {j \in 1..Len(AllNodes) : AllNodes[j].src # None}}

\* C11: the locator fails with the no-containing-node error exactly when no
\* node of the tree qualifies (same file id, offset <= target.offset, end >=
\* target.offset + max(target.length, 1)), the error reporting the target's
\* offset; it fails whenever the target's file id occurs in no node's src.
C11_FailsIffNoNodeQualifies ==
    Located =>
        /\ best_match.kind \in {"ok", "no_containing_node"}
        /\ best_match.kind = "no_containing_node"
              <=> ~\E k \in 1..Len(AllNodes) :
                      Holds(AllNodes[k], source_location, Max(source_location.length, 1))
        /\ best_match.kind = "no_containing_node"
              => best_match.offset = source_location.offset
        /\ source_location.file_id \notin FileIdsOfTree
              => best_match.kind = "no_containing_node"

\* the call failed on a tree with a node of another file whose span holds
\* the target range
C11_Witness ==
    /\ Located /\ best_match.kind = "no_containing_node"
    /\ source_location.file_id \notin FileIdsOfTree
    /\ \E k \in 1..Len(AllNodes) :
          /\ AllNodes[k].src # None
          /\ NodeSpan(AllNodes[k]).offset <= source_location.offset
          /\ NodeSpan(AllNodes[k]).offset + LengthOf(AllNodes[k])
                >= source_location.offset + Max(source_location.length, 1)

\* C24: when several qualifying nodes share the smallest length, the node
\* returned is the one visited first in depth-first pre-order (a parent
\* before its children, children in their order in the node); a later node
\* of equal length never replaces it.
C24_FirstVisitedWinsTies ==
    (Located /\ best_match.kind = "ok") =>
        /\ AllNodes[best_match.visit] = best_match.node
        /\ \A k \in 1..Len(AllNodes) :
              (/\ Holds(AllNodes[k], source_location, Max(source_location.length, 1))
               /\ LengthOf(AllNodes[k]) = LengthOf(best_match.node))
                 => best_match.visit <= k

\* a node was returned although a different qualifying node of the same
\* length is visited after it
C24_Witness ==
    /\ Located /\ best_match.kind = "ok"
    /\ \E k \in (best_match.visit + 1)..Len(AllNodes) :
          /\ Holds(AllNodes[k], source_location, Max(source_location.length, 1))
          /\ LengthOf(AllNodes[k]) = LengthOf(best_match.node)
          /\ AllNodes[k] # best_match.node

---------------------------------------------------------------------------
(* Claims about the snippet readers, checked under SpecSnippet *)

StringRead == string_snippet # SnippetPending

\* the 0-based positions of the text inside [snip_start, snip_start + snip_length)
SnippetPositions ==
    {p \in 0 .. Len(source_text) - 1 : snip_start <= p /\ p < snip_start + snip_length}

RECURSIVE TotalLength(_)
TotalLength(lines) ==
    IF lines = <<>> THEN 0 ELSE Len(Head(lines)) + TotalLength(Tail(lines))

\* the 1-based number of the line that holds 0-based position p of the text:
\* a line ends with its newline
LineHolding(p) ==
    CHOOSE n \in 1 .. Len(FileLines(source_text)) :
        LET before == TotalLength(SubSeq(FileLines(source_text), 1, n - 1))
        IN  before <= p /\ p < before + Len(FileLines(source_text)[n])

\* C13: the code read from a text is the characters of the text at the
\* positions [offset, offset + length), the line is 1 plus the number of
\* newlines before offset, and that is the 1-based line holding offset.
C13_SnippetIsSliceAndLine ==
    StringRead =>
        /\ Len(string_snippet.code) = Cardinality(SnippetPositions)
        /\ \A i \in 1 .. Len(string_snippet.code) :
              string_snippet.code[i] = source_text[snip_start + i]
        /\ string_snippet.line =
              1 + Cardinality({p \in 0 .. snip_start - 1 :
                                  p < Len(source_text) /\ source_text[p + 1] = "\n"})
        /\ snip_start < Len(source_text) => string_snippet.line = LineHolding(snip_start)

\* a snippet was read that starts on a later line and runs over a newline
C13_Witness ==
    /\ StringRead
    /\ string_snippet.line >= 2
    /\ Len(string_snippet.code) = 2
    /\ string_snippet.code[1] = "\n"

FileRead == file_snippet # Some(SnippetPending)

\* [snip_start, snip_start + snip_length) lies inside the text and within one
\* line of it: no newline stands before the last character of the range
WithinOneLine ==
    /\ snip_start < Len(source_text)
    /\ snip_start + snip_length <= Len(source_text)
    /\ \A p \in snip_start .. (snip_start + snip_length - 2) : source_text[p + 1] # "\n"

\* C25: for a file with \n line endings and a range within a single line,
\* _read_snippet_from_file of src/mapper.py returns the 1-based line holding
\* position start (1 plus the number of newlines before start) and the
\* file's characters [start, start + length), also when start is the first
\* character of a line.
C25_FileSnippetIsSliceAndLine ==
    (FileRead /\ WithinOneLine) =>
        file_snippet =
            Some([code |-> SubSeq(source_text, snip_start + 1, snip_start + snip_length),
                  line |-> 1 + Cardinality({p \in 0 .. snip_start - 1 :
                                               source_text[p + 1] = "\n"})])

---------------------------------------------------------------------------
(* Claims about the reconstructor, checked under SpecReconstruct *)

Printed == reconstructed # NotReconstructed

TypeOf(node) == Get(node, "nodeType", "")

HasNoHandler(node) == TypeOf(node) # "" /\ TypeOf(node) \notin Handled

\* the texts of `parts` occur in `text` from position `from` on, one after
\* the other and in this order
RECURSIVE OccurInOrder(_, _, _)
OccurInOrder(text, parts, from) ==
    IF parts = <<>> THEN TRUE
    ELSE \E i \in from .. Len(text) - Len(Head(parts)) + 1 :
            /\ SubSeq(text, i, i + Len(Head(parts)) - 1) = Head(parts)
            /\ OccurInOrder(text, Tail(parts), i + Len(Head(parts)))

RECURSIVE BinaryOperationsIn(_)
RECURSIVE BinaryOperationsInEach(_)
BinaryOperationsIn(node) ==
    (IF TypeOf(node) = "BinaryOperation" THEN 1 ELSE 0)
        + BinaryOperationsInEach(PrintedChildren(node))

BinaryOperationsInEach(nodes) ==
    IF nodes = <<>> THEN 0
    ELSE BinaryOperationsIn(Head(nodes)) + BinaryOperationsInEach(Tail(nodes))

\* how often piece p occurs in the text
Count(text, p) == Cardinality({i \in 1 .. Len(text) : text[i] = p})

\* the FunctionCall nodes among a node and the nodes printed below it
RECURSIVE FunctionCallsIn(_)
RECURSIVE FunctionCallsInEach(_)
FunctionCallsIn(node) ==
    (IF TypeOf(node) = "FunctionCall" THEN 1 ELSE 0) + FunctionCallsInEach(PrintedChildren(node))

FunctionCallsInEach(nodes) ==
    IF nodes = <<>> THEN 0
    ELSE FunctionCallsIn(Head(nodes)) + FunctionCallsInEach(Tail(nodes))

\* C18: the text of a BinaryOperation node is "(" + reconstruct(left) + " "
\* + operator + " " + reconstruct(right) + ")", at every level of nesting, so
\* that every binary operation of the tree has its own pair of parentheses
\* in the text.
C18_BinaryOperationParenthesised ==
    Printed =>
        /\ TypeOf(ast_node) = "BinaryOperation" =>
              reconstructed[1] =
                 <<"(">> \o Reconstruct(ast_node.leftExpression) \o <<" ", ast_node.operator, " ">>
                         \o Reconstruct(ast_node.rightExpression) \o <<")">>
        /\ Count(reconstructed[1], "(")
              = BinaryOperationsIn(ast_node) + FunctionCallsIn(ast_node)
        /\ Count(reconstructed[1], ")") = Count(reconstructed[1], "(")

\* ((a + 1) + a) was printed from a binary operation inside a binary operation
C18_Witness ==
    /\ Printed
    /\ TypeOf(ast_node) = "BinaryOperation"
    /\ TypeOf(ast_node.leftExpression) = "BinaryOperation"
    /\ reconstructed[1] = <<"(", "(", "a", " ", "+", " ", "1", ")", " ", "+", " ", "a", ")">>

\* C29: for a Literal node of kind 'bool' the text is the literal's own
\* value: "true" for the value "true" and "false" for the value "false".
C29_BoolLiteralPrintsItsValue ==
    (Printed /\ TypeOf(ast_node) = "Literal" /\ ast_node.kind = "bool")
        => reconstructed[1] = <<ast_node.value>>

---------------------------------------------------------------------------
(* Claims about function definitions, checked under SpecFunctionDefinition *)

ParametersOf(node) == Get(Get(node, "parameters", Missing), "parameters", <<>>)

ReturnParametersOf(node) == Get(Get(node, "returnParameters", Missing), "parameters", <<>>)

\* the texts of the nodes, with ", " between them, in their order
RECURSIVE CommaSeparated(_)
CommaSeparated(nodes) ==
    IF nodes = <<>> THEN <<>>
    ELSE IF Len(nodes) = 1 THEN Reconstruct(nodes[1])
    ELSE Reconstruct(nodes[1]) \o <<", ">> \o CommaSeparated(Tail(nodes))

\* C26: the text of a FunctionDefinition node is the header
\* "function <name>(<params>) <visibility> <mutability>", then
\* " returns (...)" if and only if the node has at least one return
\* parameter, then the reconstructed body if the node has a body and ";"
\* otherwise; parameters are joined by ", " in declaration order.
C26_FunctionDefinitionText ==
    (Printed /\ TypeOf(ast_node) = "FunctionDefinition") =>
        LET header  == <<"function ">> \o Piece(ast_node.name) \o <<"(">>
                           \o CommaSeparated(ParametersOf(ast_node)) \o <<") ">>
                           \o Piece(ast_node.visibility) \o <<" ">>
                           \o Piece(ast_node.stateMutability)
            returns == <<" returns (">> \o CommaSeparated(ReturnParametersOf(ast_node))
                           \o <<")">>
            ending  == IF ast_node.body # Missing
                       THEN <<" ">> \o Reconstruct(ast_node.body) ELSE <<" ", ";">>
        IN  /\ Len(ReturnParametersOf(ast_node)) >= 1
                  => reconstructed[1] = header \o returns \o ending
            /\ Len(ReturnParametersOf(ast_node)) = 0
                  => reconstructed[1] = header \o ending
            /\ Count(reconstructed[1], " returns (") = 1
                  <=> Len(ReturnParametersOf(ast_node)) >= 1

\* a definition with two parameters, a return parameter and a body was printed
C26_Witness ==
    /\ Printed /\ TypeOf(ast_node) = "FunctionDefinition"
    /\ Len(ParametersOf(ast_node)) = 2
    /\ Len(ReturnParametersOf(ast_node)) = 1
    /\ ast_node.body # Missing
    /\ Count(reconstructed[1], ", ") = 1

---------------------------------------------------------------------------
(* Claims about map_hex_address, checked under SpecMapper *)

Disassembled == map_dis.kind = "ok"

AddressDec == ParseHexInt(call.address_hex)

AddressNotFound == stage = "Failed" /\ map_result.error = "address_not_found"

\* C2: the call reports "address not found" exactly when the disassembler
\* returned instruction index 0 for an input address other than 0; for the
\* address 0 the index 0 is accepted and the call goes on to the source map.
C2_ZeroIndexRejectedOnlyForNonZeroAddress ==
    /\ AddressNotFound <=> (Disassembled /\ map_dis.index = 0 /\ AddressDec # 0)
    /\ (Disassembled /\ AddressDec = 0) => stage # "Failed" \/ map_entry # SmPending

PkgCall == call.copy = "pkg"

RootCall == call.copy = "root"

\* the call has left the step that follows the source-map entry
PastSourceMap == map_entry.kind = "ok" /\ stage # "SourceMapResolved"

\* C12: in the package's map_hex_address, when the resolved entry has
\* file_id -1 the call ends with the not-associated-with-any-source-file
\* error, and neither the source lookup nor the snippet extraction has run.
C12_NoFileSentinelFails ==
    (PkgCall /\ PastSourceMap /\ map_entry.entry.file_id = Some(-1)) =>
        /\ stage = "Failed"
        /\ map_result = Returned(call.contract_name, <<>>, 0, "no_source_file")
        /\ \A k \in 1..Len(map_trace) : map_trace[k] # "literal"

\* a call whose entry has file_id -1 has ended, its source with literal content
C12_Witness ==
    /\ PkgCall /\ PastSourceMap /\ map_entry.entry.file_id = Some(-1)
    /\ stage = "Failed"
    /\ call.metadata[1].has_content

\* the located node's source file cannot be read: no folder, or no file
LiteralUnavailable ==
    \/ ~call.contracts_folder
    \/ ~call.files[NodeSpan(map_node.node).file_id + 1].on_disk

\* C14: in mapper.py's map_hex_address, once a node has been located and the
\* literal source is unavailable, the call does not fail: it returns a
\* MapperResult with line 0 whose code is the text reconstructed from the
\* located node's sub-expression.
C14_ReconstructionFallbackReturns ==
    (RootCall /\ map_node.kind = "ok" /\ LiteralUnavailable
        /\ stage \notin {"ASTNodeResolved", "LiteralMissing"}) =>
        /\ map_result.outcome = "returned"
        /\ map_result.line = 0
        /\ map_result.code = ReconstructCode(map_node.node.expression[1])

\* the entry's file is a source of the compiler output whose metadata carries
\* no literal content
ContentMissing ==
    \E k \in 1..Len(call.sources), m \in 1..Len(call.metadata) :
        /\ map_entry.entry.file_id = Some(call.sources[k].id)
        /\ call.metadata[m].name = call.sources[k].name
        /\ ~call.metadata[m].has_content

\* C15: in the package's map_hex_address, when the metadata of the resolved
\* source file carries no literal content, the call falls back to
\* reconstruction and does not end in a failure.
C15_MissingContentFallsBack ==
    (PkgCall /\ PastSourceMap /\ ContentMissing) =>
        /\ stage # "Failed"
        /\ \E k \in 1..Len(map_trace) : map_trace[k] = "reconstruct"

\* C16: the package's map_hex_address never raises; a call that fails at any
\* step returns a MapperResult whose file is the contract_name argument,
\* whose code is the error message and whose line is 0.
C16_ErrorsReturnedUnderContractName ==
    PkgCall =>
        /\ map_result.outcome # "raised"
        /\ stage = "Failed" =>
              /\ map_result.outcome = "returned"
              /\ map_result.error # ""
              /\ map_result.file = call.contract_name
              /\ map_result.line = 0

IsPrefix(s, t) == Len(s) <= Len(t) /\ s = SubSeq(t, 1, Len(s))

\* the stages of a call of mapper.py's map_hex_address, in the order they ran
StagesInOrder ==
    \/ IsPrefix(map_trace, <<"disassembly", "source_map", "ast", "literal", "reconstruct">>)
    \/ map_trace = <<"disassembly", "source_map", "ast", "reconstruct">>

\* every stage that ran but the last has succeeded; reconstruction after the
\* literal stage means the source file was not found
EarlierStagesSucceeded ==
    /\ Len(map_trace) >= 2 => map_dis.kind = "ok" /\ map_dis.index # 0
    /\ Len(map_trace) >= 3 => map_entry.kind = "ok"
    /\ Len(map_trace) >= 4 => map_node.kind = "ok"
    /\ Len(map_trace) = 5 => LiteralUnavailable

\* C19: a call of mapper.py's map_hex_address runs disassembly, source-map
\* decoding, AST location, then literal extraction or reconstruction, in
\* this order, each stage only after the earlier ones succeeded; a failed
\* call has raised and returned no MapperResult, and nothing runs after the
\* failure.
C19_StagesRunInOrder ==
    /\ [](RootCall =>
            /\ StagesInOrder
            /\ EarlierStagesSucceeded
            /\ stage = "Failed" <=> map_result.outcome = "raised"
            /\ map_result.outcome = "returned"
                  <=> stage \in {"LiteralExtracted", "Reconstructed", "Done"})
    /\ [][RootCall /\ stage = "Failed" => FALSE]_vars

\* a call failed in the AST stage, after two stages that succeeded
C19_Witness ==
    /\ RootCall /\ stage = "Failed"
    /\ map_trace = <<"disassembly", "source_map", "ast">>
    /\ map_result = Raised("no_containing_node")

---------------------------------------------------------------------------
(* Claims about runs of decoder calls, checked under SpecDecodeCalls *)

SameInputs(a, b) ==
    a.srcmap = b.srcmap /\ a.instruction_index = b.instruction_index

PkgEnded == PkgCall /\ stage \in {"Failed", "LiteralExtracted", "Done"}

\* C30: in the package's map_hex_address the returned line is 0 if and only
\* if the call failed: a successful mapping returns line >= 1 and as file the
\* name of the source whose id is the resolved file_id, and every failure
\* returns line 0.
C30_LineZeroIffFailed ==
    PkgEnded =>
        /\ map_result.outcome = "returned"
        /\ map_result.line = 0 <=> stage = "Failed"
        /\ stage = "Failed" <=> map_result.error # ""
        /\ stage # "Failed" =>
              /\ map_result.line >= 1
              /\ \E k \in 1..Len(call.sources) :
                    /\ Some(call.sources[k].id) = map_entry.entry.file_id
                    /\ map_result.file = call.sources[k].name

\* a mapping into the second source of the compiler output succeeded on a
\* line behind the first
C30_Witness ==
    /\ PkgEnded /\ stage = "Done"
    /\ map_entry.entry.file_id = Some(1)
    /\ map_result.file = "Token.sol"
    /\ Len(map_result.code) >= 1

====
